---- MODULE Spec2Model ----
(***************************************************************************)
(* Binding of the string expressions of                                    *)
(* supersonic/expression/core/string_expressions.cc: the CONCAT node and   *)
(* the pattern-bearing nodes REGEXP_PARTIAL_MATCH, REGEXP_FULL_MATCH,      *)
(* REGEXP_EXTRACT and REGEXP_REPLACE.                                      *)
(*                                                                         *)
(* A bound expression is a record [id, type]; a pointer to it is its id,   *)
(* and NullPtr is the null pointer.  A FailureOrOwned result is either     *)
(* Success(value) or Failure(kind, message).  Every bind call leaves a     *)
(* trace: the bound children handed to the type-check hook, the pointers   *)
(* deleted, the pointers forwarded to a bound factory and the factory      *)
(* calls made.                                                             *)
(***************************************************************************)
EXTENDS Integers, Sequences, FiniteSets

VARIABLES node, ctorArg, buf, last, binds

vars == <<node, ctorArg, buf, last, binds>>

(* ------------------------------ bounds --------------------------------- *)

\* Length of the caller's pattern buffer.
BufLen == 2

\* Largest number of arguments of a CONCAT list.
MaxArgs == 3

\* Largest number of bind calls made on one node.
MaxBinds == 2

Slots == {"e1", "e2"}

MainSlots == {"e1"}

Alphabet == {"a", "("}

RECURSIVE Strs(_)
Strs(n) == IF n = 0 THEN {""} ELSE {s \o c : s \in Strs(n - 1), c \in Alphabet}

Contains(s, sub) ==
  \E i \in 1..(Len(s) - Len(sub) + 1) : SubSeq(s, i, i + Len(sub) - 1) = sub

Count(seq, x) == Cardinality({i \in 1..Len(seq) : seq[i] = x})

(* --------------------------- collaborators ----------------------------- *)

TYPE_STRING == 0
INT32 == 1
BOOL == 6

NullPtr == 0

ERROR_ATTRIBUTE_TYPE_MISMATCH == "ERROR_ATTRIBUTE_TYPE_MISMATCH"

TypeName(type) ==
  CASE type = TYPE_STRING -> "STRING"
    [] type = INT32 -> "INT32"
    [] type = BOOL -> "BOOL"

Success(value) == [ok |-> TRUE, value |-> value]

Failure(kind, message) == [ok |-> FALSE, kind |-> kind, message |-> message]

\* The leaf expressions the nodes are built over.
Children == {"str_col", "int_col", "no_col"}

\* Binding a leaf against the schema: its resolved type, or a failure.
ChildBind(c, id) ==
  CASE c = "str_col" -> Success([id |-> id, type |-> TYPE_STRING])
    [] c = "int_col" -> Success([id |-> id, type |-> INT32])
    [] c = "no_col" -> Failure("ERROR_ATTRIBUTE_MISSING",
                               "No attribute no_col in the schema")

ChildToString(c, verbose) ==
  IF verbose THEN "NAMED_ATTRIBUTE(" \o c \o ")" ELSE c

GetExpressionType(bound) == bound.type

ScopedPtrDtor(ptr) == IF ptr = NullPtr THEN <<>> ELSE <<ptr>>

StdString(data, length) == SubSeq(data, 1, length)

\* A regular expression compiles iff its parentheses are balanced.
ValidPattern(pattern) == ~Contains(pattern, "(")

OPERATOR_REGEXP_PARTIAL == "OPERATOR_REGEXP_PARTIAL"
OPERATOR_REGEXP_FULL == "OPERATOR_REGEXP_FULL"
OPERATOR_REGEXP_EXTRACT == "OPERATOR_REGEXP_EXTRACT"
OPERATOR_REGEXP_REPLACE == "OPERATOR_REGEXP_REPLACE"
OPERATOR_CONCAT == "OPERATOR_CONCAT"

UnaryFormatDescription(op, child) ==
  IF op = OPERATOR_REGEXP_PARTIAL
  THEN "REGEXP_PARTIAL_MATCH(" \o child \o ")"
  ELSE "REGEXP_FULL_MATCH(" \o child \o ")"

BinaryFormatDescription(left, right) ==
  "REGEXP_REPLACE(" \o left \o ", " \o right \o ")"

MalformedPattern(pattern) ==
  Failure("ERROR_INVALID_ARGUMENT_VALUE", "Malformed regexp pattern: " \o pattern)

BoundGeneralRegexp(op, child, pattern) ==
  IF ValidPattern(pattern)
  THEN Success([type |-> BOOL, op |-> op, children |-> <<child>>, pattern |-> pattern])
  ELSE MalformedPattern(pattern)

BoundRegexpExtract(child, pattern) ==
  IF ValidPattern(pattern)
  THEN Success([type |-> TYPE_STRING, op |-> OPERATOR_REGEXP_EXTRACT,
                children |-> <<child>>, pattern |-> pattern])
  ELSE MalformedPattern(pattern)

BoundRegexpReplace(left, pattern, right) ==
  IF ValidPattern(pattern)
  THEN Success([type |-> TYPE_STRING, op |-> OPERATOR_REGEXP_REPLACE,
                children |-> <<left, right>>, pattern |-> pattern])
  ELSE MalformedPattern(pattern)

Nth(i) == <<"first", "second", "third", "fourth", "fifth", "sixth">>[i]

\* CONCAT's bound factory checks the element types itself: the first element
\* that is not a TYPE_STRING fails the call.
BoundConcat(args) ==
  LET bad == {i \in 1..Len(args) : GetExpressionType(args[i]) # TYPE_STRING}
  IN IF bad = {}
     THEN Success([type |-> TYPE_STRING, op |-> OPERATOR_CONCAT, children |-> args,
                   pattern |-> ""])
     ELSE LET i == CHOOSE k \in bad : \A j \in bad : k <= j
          IN Failure(ERROR_ATTRIBUTE_TYPE_MISMATCH,
                     "Invalid argument type (" \o TypeName(GetExpressionType(args[i]))
                       \o ") as " \o Nth(i) \o " argument to CONCAT, STRING expected")

Ids(bounds) == [i \in 1..Len(bounds) |-> bounds[i].id]

\* ExpressionList::DoBind: the elements are bound in order; the first failure
\* aborts, releases the elements already bound and is the list's result.
ExpressionListDoBind(args) ==
  LET failing == {i \in 1..Len(args) : ~ChildBind(args[i], i).ok}
  IN IF failing = {}
     THEN [result |-> Success([i \in 1..Len(args) |-> ChildBind(args[i], i).value]),
           deleted |-> <<>>]
     ELSE LET f == CHOOSE k \in failing : \A j \in failing : k <= j
          IN [result |-> ChildBind(args[f], f),
              deleted |-> [i \in 1..(f - 1) |-> i]]

(* ------------------------------ the nodes ------------------------------ *)

NoNode == [op |-> "NONE", args |-> <<>>, pattern_ |-> ""]

ConcatExpressionCtor(list) ==
  [op |-> OPERATOR_CONCAT, args |-> list, pattern_ |-> ""]

RegexpExpressionCtor(operation_type, arg, pattern) ==
  [op |-> operation_type, args |-> <<arg>>,
   pattern_ |-> StdString(pattern.data, pattern.length)]

RegexpExtractExpressionCtor(arg, pattern) ==
  [op |-> OPERATOR_REGEXP_EXTRACT, args |-> <<arg>>,
   pattern_ |-> StdString(pattern.data, pattern.length)]

\* The constructor reads the needle as a C string and ignores its length.
RegexpReplaceCtorIgnoresLength(haystack, needle, substitute) ==
  [op |-> OPERATOR_REGEXP_REPLACE, args |-> <<haystack, substitute>>,
   pattern_ |-> StdString(needle.data, Len(needle.data))]

RegexpReplaceExpressionCtor(haystack, needle, substitute) ==
  [op |-> OPERATOR_REGEXP_REPLACE, args |-> <<haystack, substitute>>,
   pattern_ |-> StdString(needle.data, needle.length)]

RECURSIVE ListToString(_, _)
ListToString(args, verbose) ==
  IF Len(args) = 0 THEN ""
  ELSE IF Len(args) = 1 THEN ChildToString(args[1], verbose)
  ELSE ChildToString(args[1], verbose) \o ", " \o ListToString(Tail(args), verbose)

ConcatToString(n, verbose) == "CONCAT(" \o ListToString(n.args, verbose) \o ")"

RegexpToString(n, verbose) ==
  UnaryFormatDescription(n.op, ChildToString(n.args[1], verbose))

RegexpExtractToString(n, verbose) ==
  "REGEXP_EXTRACT(" \o ChildToString(n.args[1], verbose) \o ")"

RegexpReplaceToString(n, verbose) ==
  BinaryFormatDescription(ChildToString(n.args[1], verbose),
                          ChildToString(n.args[2], verbose))

ToString(n, verbose) ==
  CASE n.op = OPERATOR_CONCAT -> ConcatToString(n, verbose)
    [] n.op \in {OPERATOR_REGEXP_PARTIAL, OPERATOR_REGEXP_FULL} -> RegexpToString(n, verbose)
    [] n.op = OPERATOR_REGEXP_EXTRACT -> RegexpExtractToString(n, verbose)
    [] n.op = OPERATOR_REGEXP_REPLACE -> RegexpReplaceToString(n, verbose)

(* ----------------------------- the hooks ------------------------------- *)

MismatchUnary(n, child_type, verbose) ==
  Failure(ERROR_ATTRIBUTE_TYPE_MISMATCH,
          "Invalid argument type (" \o TypeName(child_type) \o ") to "
            \o ToString(n, verbose) \o ", STRING expected")

MismatchBinary(n, type, position, verbose) ==
  Failure(ERROR_ATTRIBUTE_TYPE_MISMATCH,
          "Invalid argument type (" \o TypeName(type) \o ") as " \o position
            \o " argument to " \o ToString(n, verbose) \o ", STRING expected")

FactoryCall(factory, pointers, pattern) ==
  [factory |-> factory, children |-> pointers, pattern |-> pattern]

\* The hook forwards child_ptr.get() and keeps owning the child.
RegexpHookKeepsOwnership(n, child) ==
  LET child_ptr == child.id
      child_type == GetExpressionType(child)
  IN IF child_type # TYPE_STRING
     THEN [result |-> MismatchUnary(n, child_type, TRUE), handed |-> <<child>>,
           deleted |-> ScopedPtrDtor(child_ptr), forwarded |-> <<>>, calls |-> <<>>]
     ELSE [result |-> BoundGeneralRegexp(n.op, child, n.pattern_),
           handed |-> <<child>>,
           deleted |-> ScopedPtrDtor(child_ptr),
           forwarded |-> <<child_ptr>>,
           calls |-> <<FactoryCall("BoundGeneralRegexp", <<child_ptr>>, n.pattern_)>>]

\* The hook's type test is inverted.
RegexpHookInvertedTest(n, child) ==
  LET child_ptr == child.id
      child_type == GetExpressionType(child)
  IN IF child_type = TYPE_STRING
     THEN [result |-> MismatchUnary(n, child_type, TRUE), handed |-> <<child>>,
           deleted |-> ScopedPtrDtor(child_ptr), forwarded |-> <<>>, calls |-> <<>>]
     ELSE [result |-> BoundGeneralRegexp(n.op, child, n.pattern_),
           handed |-> <<child>>,
           deleted |-> ScopedPtrDtor(NullPtr),
           forwarded |-> <<child_ptr>>,
           calls |-> <<FactoryCall("BoundGeneralRegexp", <<child_ptr>>, n.pattern_)>>]

\* RegexpExpression<operation_type>::CreateBoundUnaryExpression
RegexpCreateBoundUnaryExpression(n, child) ==
  LET child_ptr == child.id
      child_type == GetExpressionType(child)
  IN IF child_type # TYPE_STRING
     THEN [result |-> MismatchUnary(n, child_type, TRUE), handed |-> <<child>>,
           deleted |-> ScopedPtrDtor(child_ptr), forwarded |-> <<>>, calls |-> <<>>]
     ELSE LET released == child_ptr
              after == NullPtr
          IN [result |-> BoundGeneralRegexp(n.op, child, n.pattern_),
              handed |-> <<child>>,
              deleted |-> ScopedPtrDtor(after),
              forwarded |-> <<released>>,
              calls |-> <<FactoryCall("BoundGeneralRegexp", <<released>>, n.pattern_)>>]

\* The hook calls the factory without testing the child's type.
RegexpExtractHookNoTest(n, child) ==
  [result |-> BoundRegexpExtract(child, n.pattern_), handed |-> <<child>>,
   deleted |-> ScopedPtrDtor(NullPtr), forwarded |-> <<child.id>>,
   calls |-> <<FactoryCall("BoundRegexpExtract", <<child.id>>, n.pattern_)>>]

\* RegexpExtractExpression::CreateBoundUnaryExpression
RegexpExtractCreateBoundUnaryExpression(n, child) ==
  LET child_ptr == child.id
      child_type == GetExpressionType(child)
  IN IF child_type # TYPE_STRING
     THEN [result |-> MismatchUnary(n, child_type, TRUE), handed |-> <<child>>,
           deleted |-> ScopedPtrDtor(child_ptr), forwarded |-> <<>>, calls |-> <<>>]
     ELSE LET released == child_ptr
              after == NullPtr
          IN [result |-> BoundRegexpExtract(child, n.pattern_),
              handed |-> <<child>>,
              deleted |-> ScopedPtrDtor(after),
              forwarded |-> <<released>>,
              calls |-> <<FactoryCall("BoundRegexpExtract", <<released>>, n.pattern_)>>]

\* The hook tests the substitute before the haystack.
ReplaceHookRightFirst(n, left, right) ==
  LET left_ptr == left.id
      right_ptr == right.id
      left_type == GetExpressionType(left)
      right_type == GetExpressionType(right)
  IN IF right_type # TYPE_STRING
     THEN [result |-> MismatchBinary(n, right_type, "last", TRUE),
           handed |-> <<left, right>>,
           deleted |-> ScopedPtrDtor(right_ptr) \o ScopedPtrDtor(left_ptr),
           forwarded |-> <<>>, calls |-> <<>>]
     ELSE IF left_type # TYPE_STRING
     THEN [result |-> MismatchBinary(n, left_type, "first", TRUE),
           handed |-> <<left, right>>,
           deleted |-> ScopedPtrDtor(right_ptr) \o ScopedPtrDtor(left_ptr),
           forwarded |-> <<>>, calls |-> <<>>]
     ELSE [result |-> BoundRegexpReplace(left, n.pattern_, right),
           handed |-> <<left, right>>,
           deleted |-> ScopedPtrDtor(NullPtr) \o ScopedPtrDtor(NullPtr),
           forwarded |-> <<left_ptr, right_ptr>>,
           calls |-> <<FactoryCall("BoundRegexpReplace", <<left_ptr, right_ptr>>,
                                   n.pattern_)>>]

\* The hook puts the node's non-verbose form, ToString(false), in the message.
ReplaceHookTerse(n, left, right) ==
  LET left_ptr == left.id
      right_ptr == right.id
      left_type == GetExpressionType(left)
      right_type == GetExpressionType(right)
  IN IF left_type # TYPE_STRING
     THEN [result |-> MismatchBinary(n, left_type, "first", FALSE),
           handed |-> <<left, right>>,
           deleted |-> ScopedPtrDtor(right_ptr) \o ScopedPtrDtor(left_ptr),
           forwarded |-> <<>>, calls |-> <<>>]
     ELSE IF right_type # TYPE_STRING
     THEN [result |-> MismatchBinary(n, right_type, "last", FALSE),
           handed |-> <<left, right>>,
           deleted |-> ScopedPtrDtor(right_ptr) \o ScopedPtrDtor(left_ptr),
           forwarded |-> <<>>, calls |-> <<>>]
     ELSE [result |-> BoundRegexpReplace(left, n.pattern_, right),
           handed |-> <<left, right>>,
           deleted |-> ScopedPtrDtor(NullPtr) \o ScopedPtrDtor(NullPtr),
           forwarded |-> <<left_ptr, right_ptr>>,
           calls |-> <<FactoryCall("BoundRegexpReplace", <<left_ptr, right_ptr>>,
                                   n.pattern_)>>]

\* RegexpReplaceExpression::CreateBoundBinaryExpression.  The two scoped
\* pointers take the children at once; a THROW returns, and their destructors
\* (right_ptr, then left_ptr) delete what they still hold.
RegexpReplaceCreateBoundBinaryExpression(n, left, right) ==
  LET left_ptr == left.id
      right_ptr == right.id
      left_type == GetExpressionType(left)
  IN IF left_type # TYPE_STRING
     THEN [result |-> MismatchBinary(n, left_type, "first", TRUE),
           handed |-> <<left, right>>,
           deleted |-> ScopedPtrDtor(right_ptr) \o ScopedPtrDtor(left_ptr),
           forwarded |-> <<>>, calls |-> <<>>]
     ELSE LET right_type == GetExpressionType(right)
          IN IF right_type # TYPE_STRING
             THEN [result |-> MismatchBinary(n, right_type, "last", TRUE),
                   handed |-> <<left, right>>,
                   deleted |-> ScopedPtrDtor(right_ptr) \o ScopedPtrDtor(left_ptr),
                   forwarded |-> <<>>, calls |-> <<>>]
             ELSE LET left_released == left_ptr
                      right_released == right_ptr
                      left_after == NullPtr
                      right_after == NullPtr
                  IN [result |-> BoundRegexpReplace(left, n.pattern_, right),
                      handed |-> <<left, right>>,
                      deleted |-> ScopedPtrDtor(right_after) \o ScopedPtrDtor(left_after),
                      forwarded |-> <<left_released, right_released>>,
                      calls |-> <<FactoryCall("BoundRegexpReplace",
                                              <<left_released, right_released>>,
                                              n.pattern_)>>]

(* ------------------------------ binding -------------------------------- *)

NoOutcome ==
  [result |-> Failure("NONE", ""), handed |-> <<>>, deleted |-> <<>>,
   forwarded |-> <<>>, calls |-> <<>>]

\* A failure met before any hook or factory ran.
Propagate(failure, released) ==
  [result |-> failure, handed |-> <<>>, deleted |-> released,
   forwarded |-> <<>>, calls |-> <<>>]

\* The virtual CreateBoundUnaryExpression of the node's class.
CreateBoundUnaryExpression(n, child) ==
  IF n.op = OPERATOR_REGEXP_EXTRACT
  THEN RegexpExtractCreateBoundUnaryExpression(n, child)
  ELSE RegexpCreateBoundUnaryExpression(n, child)

\* UnaryExpression::DoBind: bind the child, propagate its failure, else hand
\* the released bound child to the hook.
UnaryExpressionDoBind(n) ==
  LET child == ChildBind(n.args[1], 1)
  IN IF ~child.ok THEN Propagate(child, <<>>)
     ELSE CreateBoundUnaryExpression(n, child.value)

\* BinaryExpression::DoBind: left first, then right; a failing right child
\* releases the bound left child.
BinaryExpressionDoBind(n) ==
  LET left == ChildBind(n.args[1], 1)
  IN IF ~left.ok THEN Propagate(left, <<>>)
     ELSE LET right == ChildBind(n.args[2], 2)
          IN IF ~right.ok THEN Propagate(right, <<left.value.id>>)
             ELSE RegexpReplaceCreateBoundBinaryExpression(n, left.value, right.value)

\* DoBind reports success without calling BoundConcat's checks.
ConcatDoBindUnchecked(n) ==
  LET args == ExpressionListDoBind(n.args)
  IN IF ~args.result.ok THEN Propagate(args.result, args.deleted)
     ELSE [result |-> Success([type |-> TYPE_STRING, op |-> OPERATOR_CONCAT,
                               children |-> args.result.value, pattern |-> ""]),
           handed |-> <<>>, deleted |-> <<>>,
           forwarded |-> Ids(args.result.value),
           calls |-> <<FactoryCall("BoundConcat", Ids(args.result.value), "")>>]

\* DoBind wraps the list's failure in a failure of its own.
ConcatDoBindWrapping(n) ==
  LET args == ExpressionListDoBind(n.args)
  IN IF ~args.result.ok
     THEN Propagate(Failure(args.result.kind,
                            "Cannot bind CONCAT: " \o args.result.message),
                    args.deleted)
     ELSE [result |-> BoundConcat(args.result.value),
           handed |-> <<>>, deleted |-> <<>>,
           forwarded |-> Ids(args.result.value),
           calls |-> <<FactoryCall("BoundConcat", Ids(args.result.value), "")>>]

\* ConcatExpression::DoBind
ConcatDoBind(n) ==
  LET args == ExpressionListDoBind(n.args)
  IN IF ~args.result.ok THEN Propagate(args.result, args.deleted)
     ELSE [result |-> BoundConcat(args.result.value),
           handed |-> <<>>, deleted |-> <<>>,
           forwarded |-> Ids(args.result.value),
           calls |-> <<FactoryCall("BoundConcat", Ids(args.result.value), "")>>]

DoBind(n) ==
  CASE n.op = OPERATOR_CONCAT -> ConcatDoBind(n)
    [] n.op = OPERATOR_REGEXP_REPLACE -> BinaryExpressionDoBind(n)
    [] OTHER -> UnaryExpressionDoBind(n)

\* A bind moves the node's children out of it.
ThisAfterDoBindConsumed(n) == [n EXCEPT !.args = <<>>]

\* The node after a bind: DoBind and the hooks are const member functions and
\* the children are held through pointers to const, so the node is as it was.
ThisAfterDoBind(n) == n

(* ------------------------------ actions -------------------------------- *)

StringPieces == {[data |-> buf, length |-> l] : l \in 0..Len(buf)}

ArgLists == UNION {[1..k -> Children] : k \in 1..MaxArgs}

Create(s, n, pattern) ==
  /\ node[s] = NoNode
  /\ node' = [node EXCEPT ![s] = n]
  /\ ctorArg' = [ctorArg EXCEPT ![s] = pattern]
  /\ last' = [last EXCEPT ![s] = NoOutcome]
  /\ binds' = [binds EXCEPT ![s] = 0]
  /\ UNCHANGED buf

Concat(s) ==
  \E args \in ArgLists : Create(s, ConcatExpressionCtor(args), "")

RegexpPartialMatch(s) ==
  \E str \in Children, pattern \in StringPieces :
    Create(s, RegexpExpressionCtor(OPERATOR_REGEXP_PARTIAL, str, pattern),
           SubSeq(pattern.data, 1, pattern.length))

RegexpFullMatch(s) ==
  \E str \in Children, pattern \in StringPieces :
    Create(s, RegexpExpressionCtor(OPERATOR_REGEXP_FULL, str, pattern),
           SubSeq(pattern.data, 1, pattern.length))

RegexpExtract(s) ==
  \E str \in Children, pattern \in StringPieces :
    Create(s, RegexpExtractExpressionCtor(str, pattern),
           SubSeq(pattern.data, 1, pattern.length))

RegexpReplace(s) ==
  \E haystack \in Children, substitute \in Children, needle \in StringPieces :
    Create(s, RegexpReplaceExpressionCtor(haystack, needle, substitute),
           SubSeq(needle.data, 1, needle.length))

\* The caller overwrites the buffer it passed patterns from.
WriteBuffer ==
  /\ \E b \in Strs(BufLen) \ {buf} : buf' = b
  /\ UNCHANGED <<node, ctorArg, last, binds>>

Bind(s) ==
  /\ node[s] # NoNode
  /\ binds[s] < MaxBinds
  /\ last' = [last EXCEPT ![s] = DoBind(node[s])]
  /\ node' = [node EXCEPT ![s] = ThisAfterDoBind(node[s])]
  /\ binds' = [binds EXCEPT ![s] = binds[s] + 1]
  /\ UNCHANGED <<ctorArg, buf>>

\* The owner deletes the expression.
Delete(s) ==
  /\ node[s] # NoNode
  /\ node' = [node EXCEPT ![s] = NoNode]
  /\ ctorArg' = [ctorArg EXCEPT ![s] = ""]
  /\ last' = [last EXCEPT ![s] = NoOutcome]
  /\ binds' = [binds EXCEPT ![s] = 0]
  /\ UNCHANGED buf

Init ==
  /\ node = [s \in Slots |-> NoNode]
  /\ ctorArg = [s \in Slots |-> ""]
  /\ buf \in Strs(BufLen)
  /\ last = [s \in Slots |-> NoOutcome]
  /\ binds = [s \in Slots |-> 0]

Next ==
  \/ \E s \in MainSlots : Concat(s)
  \/ \E s \in MainSlots : RegexpPartialMatch(s)
  \/ \E s \in MainSlots : RegexpFullMatch(s)
  \/ \E s \in MainSlots : RegexpExtract(s)
  \/ \E s \in MainSlots : RegexpReplace(s)
  \/ \E s \in MainSlots : Bind(s)
  \/ \E s \in MainSlots : Delete(s)
  \/ WriteBuffer

Spec == Init /\ [][Next]_vars

\* Two expressions side by side, built from one buffer and bound.
NextPair ==
  \/ \E s \in Slots : RegexpExtract(s)
  \/ \E s \in Slots : RegexpPartialMatch(s)
  \/ \E s \in Slots : RegexpFullMatch(s)
  \/ \E s \in Slots : RegexpReplace(s)
  \/ \E s \in Slots : Bind(s)

SpecPair == Init /\ [][NextPair]_vars

(* ------------------------------ properties ----------------------------- *)

PatternOps ==
  {OPERATOR_REGEXP_PARTIAL, OPERATOR_REGEXP_FULL, OPERATOR_REGEXP_EXTRACT,
   OPERATOR_REGEXP_REPLACE}

\* The last bind of the expression in slot s reached the type-check hook.
HookRan(s) == node[s].op \in PatternOps /\ binds[s] >= 1 /\ last[s].handed # <<>>

HandedTypes(s) == [i \in 1..Len(last[s].handed) |-> last[s].handed[i].type]

SomeMismatch(s) == \E i \in 1..Len(last[s].handed) : HandedTypes(s)[i] # TYPE_STRING

Failed(s) == ~last[s].result.ok

Kind(s) == IF Failed(s) THEN last[s].result.kind ELSE "OK"

Message(s) == IF Failed(s) THEN last[s].result.message ELSE ""

\* The type of the first bound child that is not a STRING.
OffendingType(s) ==
  LET bad == {i \in 1..Len(last[s].handed) : HandedTypes(s)[i] # TYPE_STRING}
  IN HandedTypes(s)[CHOOSE k \in bad : \A j \in bad : k <= j]

StatesPosition(message) ==
  \E w \in {"first", "last", "second", "third"} :
    Contains(message, "as " \o w \o " argument")

\* C1: when a bound child of a pattern-bearing node is not a STRING, bind
\* fails with ERROR_ATTRIBUTE_TYPE_MISMATCH and no bound factory is called.
C1_MismatchFailsWithoutFactory ==
  \A s \in Slots :
    HookRan(s) /\ SomeMismatch(s) =>
      /\ Kind(s) = ERROR_ATTRIBUTE_TYPE_MISMATCH
      /\ last[s].calls = <<>>
      /\ last[s].forwarded = <<>>

C1_Witness ==
  \E s \in Slots :
    /\ HookRan(s)
    /\ node[s].op = OPERATOR_REGEXP_EXTRACT
    /\ HandedTypes(s) = <<INT32>>
    /\ Kind(s) = ERROR_ATTRIBUTE_TYPE_MISMATCH

\* C2: REGEXP_REPLACE tests the haystack before the substitute: a haystack
\* that is not a STRING gives a message naming the first argument whatever the
\* substitute is, and the message names the last argument only when the
\* haystack is a STRING and the substitute is not.
C2_HaystackCheckedFirst ==
  \A s \in Slots :
    HookRan(s) /\ node[s].op = OPERATOR_REGEXP_REPLACE =>
      /\ HandedTypes(s)[1] # TYPE_STRING =>
           /\ Contains(Message(s), "first argument")
           /\ ~Contains(Message(s), "last argument")
      /\ Contains(Message(s), "last argument") <=>
           (HandedTypes(s)[1] = TYPE_STRING /\ HandedTypes(s)[2] # TYPE_STRING)

C2_Witness ==
  \E s \in Slots :
    /\ HookRan(s)
    /\ node[s].op = OPERATOR_REGEXP_REPLACE
    /\ HandedTypes(s) = <<INT32, INT32>>
    /\ Contains(Message(s), "first argument")

\* C3: every bound child handed to a hook is, when the hook returns, either
\* deleted by the hook or forwarded to the factory, exactly once in all; a
\* mismatch deletes every child handed in (the valid sibling too), and a
\* child is forwarded only when every type check passed.
C3_ReleasedOrForwardedOnce ==
  \A s \in Slots :
    HookRan(s) =>
      /\ \A i \in 1..Len(last[s].handed) :
           Count(last[s].deleted, last[s].handed[i].id)
             + Count(last[s].forwarded, last[s].handed[i].id) = 1
      /\ SomeMismatch(s) =>
           /\ last[s].forwarded = <<>>
           /\ \A i \in 1..Len(last[s].handed) :
                Count(last[s].deleted, last[s].handed[i].id) = 1
      /\ last[s].forwarded # <<>> =>
           /\ ~SomeMismatch(s)
           /\ last[s].deleted = <<>>
           /\ Len(last[s].calls) = 1
           /\ last[s].calls[1].children = last[s].forwarded

C3_Witness ==
  \E s \in Slots :
    /\ HookRan(s)
    /\ node[s].op = OPERATOR_REGEXP_REPLACE
    /\ HandedTypes(s) = <<TYPE_STRING, INT32>>
    /\ Count(last[s].deleted, last[s].handed[1].id) = 1
    /\ Count(last[s].deleted, last[s].handed[2].id) = 1

DocumentedReturnType(op) ==
  IF op \in {OPERATOR_REGEXP_PARTIAL, OPERATOR_REGEXP_FULL} THEN BOOL ELSE TYPE_STRING

C5_FailuresPropagateUnchanged ==
  \A s \in Slots :
    binds[s] >= 1 =>
      /\ node[s].op = OPERATOR_CONCAT /\ ~ExpressionListDoBind(node[s].args).result.ok =>
           /\ last[s].result = ExpressionListDoBind(node[s].args).result
           /\ last[s].calls = <<>>
      /\ node[s].op = OPERATOR_CONCAT /\ ExpressionListDoBind(node[s].args).result.ok =>
           last[s].result = BoundConcat(ExpressionListDoBind(node[s].args).result.value)
      /\ HookRan(s) /\ ~SomeMismatch(s) /\ ~ValidPattern(node[s].pattern_) =>
           last[s].result = MalformedPattern(node[s].pattern_)

C5_Witness ==
  \E s \in Slots :
    /\ binds[s] >= 1
    /\ node[s].op = OPERATOR_CONCAT
    /\ Len(node[s].args) >= 2
    /\ node[s].args[1] = "str_col"
    /\ node[s].args[2] = "no_col"
    /\ Kind(s) = "ERROR_ATTRIBUTE_MISSING"

C7_PatternKeptAndForwarded ==
  \A s \in Slots :
    node[s].op \in PatternOps =>
      /\ node[s].pattern_ = ctorArg[s]
      /\ binds[s] >= 1 /\ last[s].calls # <<>> =>
           /\ last[s].calls[1].pattern = ctorArg[s]
           /\ last[s].calls[1].children = Ids(last[s].handed)
           /\ \A i \in 1..Len(last[s].handed) :
                last[s].handed[i] = ChildBind(node[s].args[i], i).value

C7_Witness ==
  \E s \in Slots :
    /\ node[s].op = OPERATOR_REGEXP_REPLACE
    /\ binds[s] >= 2
    /\ last[s].calls # <<>>
    /\ Len(ctorArg[s]) = 1
    /\ SubSeq(buf, 1, 1) # ctorArg[s]

C10_MessageIdentifiesNode ==
  \A s \in Slots : \A t \in Slots :
    ( /\ HookRan(s) /\ SomeMismatch(s)
      /\ HookRan(t) /\ SomeMismatch(t)
      /\ Message(s) = Message(t) ) => node[s] = node[t]

====
